---- MODULE Spec2Model ----
(***************************************************************************)
(* Model of scripts/rename_images.py (the Batch Renamer) and               *)
(* scripts/labelme_to_yolo.py (the Annotation Converter).                  *)
(*                                                                         *)
(* A directory is a function from the names it holds to entries.  A name   *)
(* is [stem, ext]: stem is the sequence of the name's characters before    *)
(* the suffix (a fixed fragment such as ".tmp_ren_" counts as one          *)
(* character), ext is Path.suffix.  An entry is [kind, mtime]: kind "file" *)
(* is what Path.is_file() accepts, "dir" is a subdirectory, "link" is a    *)
(* dangling symbolic link (Path.exists() and Path.is_file() are False for  *)
(* it, os.rename replaces it).  os.rename has its POSIX meaning.           *)
(***************************************************************************)
EXTENDS Integers, Sequences, FiniteSets, TLC

VARIABLES
    \* ---- rename_images.py
    args,       \* parsed command line (parse_args)
    dir0,       \* directory content when the run starts
    dir,        \* directory content now
    pc,         \* position of main()
    code,       \* process exit code, -1 while running
    files,      \* collect_files() result
    mapping,    \* dict old -> target, in insertion order: Seq of [old, target]
    targets,    \* set of target names
    uid,        \* uuid4().hex[:8] drawn at line 99
    temp_map,   \* dict temp -> final, in insertion order: Seq of [temp, final]
    idx,        \* position of the running for loop
    last,       \* the latest Path.rename call: phase, src, dst, what dst held, outcome
    visited,    \* positions main() has been at
    faults,     \* OSErrors the environment has raised so far
    rbTried,    \* temp names whose rollback rename was attempted
    filesB,     \* collect_files() of a second run over the same directory
    mappingB,   \* mapping of that second run
    \* ---- labelme_to_yolo.py
    records,    \* the annotation records, in sorted(json_files) order
    cpc,        \* position of main()
    scanned,    \* records find_classes has read
    classes,    \* labels collected so far / sorted(classes) once discovery ends
    split,      \* [train, val, test]: index sets, or the empty record before line 92
    pos,        \* records the conversion loop has handled
    stats,      \* stats dict of main()
    written,    \* label files written: record index -> [dst, lines]
    copied,     \* record indices whose image was copied
    manifest    \* data.yaml content, <<>> before it is written

rvars == <<args, dir0, dir, pc, code, files, mapping, targets, uid, temp_map,
           idx, last, visited, faults, rbTried>>
bvars == <<filesB, mappingB>>
cvars == <<records, cpc, scanned, classes, split, pos, stats, written, copied,
           manifest>>
vars == <<rvars, bvars, cvars>>

(***************************************************************************)
(* Bounds                                                                  *)
(***************************************************************************)
MaxEntries == 3     \* entries in the directory when the run starts
MaxFaults == 1      \* OSErrors the environment raises in one run

(***************************************************************************)
(* Names                                                                   *)
(***************************************************************************)
Name(stem, ext) == [stem |-> stem, ext |-> ext]

\* str.lower() on the characters and suffixes the model uses
Lower(c) ==
    CASE c = ".JPG" -> ".jpg"
      [] c = "JPG" -> "jpg"
      [] c = "B" -> "b"
      [] OTHER -> c

RECURSIVE LowerSeq(_)
LowerSeq(s) == IF s = <<>> THEN <<>> ELSE <<Lower(Head(s))>> \o LowerSeq(Tail(s))

\* p.name.lower(), as the sequence of its characters
LowerName(p) == LowerSeq(p.stem) \o (IF p.ext = "" THEN <<>> ELSE <<Lower(p.ext)>>)

\* code point order of the (lower-cased) characters
Ord(c) ==
    CASE c = "-" -> 0
      [] c = ".jpg" -> 1
      [] c = ".tmp_ren_" -> 2
      [] c = ".txt" -> 3
      [] c = "0" -> 10 [] c = "1" -> 11 [] c = "2" -> 12 [] c = "3" -> 13
      [] c = "4" -> 14 [] c = "5" -> 15 [] c = "6" -> 16 [] c = "7" -> 17
      [] c = "8" -> 18 [] c = "9" -> 19
      [] c = "_" -> 30
      [] c = "b" -> 41
      [] c = "recovered_" -> 42
      [] c = "u1" -> 43
      [] c = "u2" -> 44
      [] OTHER -> 50

\* Python's str <, on character sequences
RECURSIVE StrLess(_, _)
StrLess(a, b) ==
    IF b = <<>> THEN FALSE
    ELSE IF a = <<>> THEN TRUE
    ELSE IF Ord(Head(a)) # Ord(Head(b)) THEN Ord(Head(a)) < Ord(Head(b))
    ELSE StrLess(Tail(a), Tail(b))

DigitChar(d) ==
    CASE d = 0 -> "0" [] d = 1 -> "1" [] d = 2 -> "2" [] d = 3 -> "3" [] d = 4 -> "4"
      [] d = 5 -> "5" [] d = 6 -> "6" [] d = 7 -> "7" [] d = 8 -> "8" [] d = 9 -> "9"

\* str(i) for i >= 0
RECURSIVE Digits(_)
Digits(i) == IF i < 10 THEN <<DigitChar(i)>> ELSE Digits(i \div 10) \o <<DigitChar(i % 10)>>

RECURSIVE ZeroFill(_, _)
ZeroFill(s, width) == IF Len(s) >= width THEN s ELSE ZeroFill(<<"0">> \o s, width)

\* f"{i:0{padding}d}" for i >= 0, padding >= 0
Fmt(i, padding) == ZeroFill(Digits(i), padding)

RECURSIVE Pow10(_)
Pow10(k) == IF k = 0 THEN 1 ELSE 10 * Pow10(k - 1)

(***************************************************************************)
(* The file system                                                         *)
(***************************************************************************)
IsFile(d, p) == p \in DOMAIN d /\ d[p].kind = "file"
Exists(d, p) == p \in DOMAIN d /\ d[p].kind # "link"
KindAt(d, p) == IF p \in DOMAIN d THEN d[p].kind ELSE "none"

\* os.rename(src, dst) of a file raises when dst is a directory
RenameRaises(d, src, dst) == KindAt(d, dst) = "dir"

Renamed(d, src, dst) ==
    [n \in (DOMAIN d \ {src}) \cup {dst} |-> IF n = dst THEN d[src] ELSE d[n]]

\* every order folder.iterdir() may list the entries in
Listings(d) ==
    LET n == Cardinality(DOMAIN d)
    IN {f \in [1..n -> DOMAIN d] : \A i, j \in 1..n : i # j => f[i] # f[j]}

(***************************************************************************)
(* rename_images.py                                                        *)
(***************************************************************************)
StartsWithDot(e) == e \in {".jpg", ".JPG", ".txt"}

\* '.' + e
AddDot(e) ==
    CASE e = "jpg" -> ".jpg"
      [] e = "txt" -> ".txt"

\* line 58: the --exts items, lower-cased, with a leading dot
NormExt(e) == IF StartsWithDot(e) THEN Lower(e) ELSE AddDot(Lower(e))

ExtsOf(a) == {NormExt(a.exts[k]) : k \in DOMAIN a.exts}

\* the sort keys of lines 42 and 44: key(p) < key(q)
KeyLess(d, sort, p, q) ==
    IF sort = "name" THEN StrLess(LowerName(p), LowerName(q))
    ELSE d[p].mtime < d[q].mtime

\* list.sort(key=...) is stable: x, which came after the items of s, goes before the
\* first item whose key is greater
RECURSIVE InsertByKey(_, _, _, _)
InsertByKey(x, s, d, sort) ==
    IF s = <<>> THEN <<x>>
    ELSE IF KeyLess(d, sort, x, Head(s)) THEN <<x>> \o s
    ELSE <<Head(s)>> \o InsertByKey(x, Tail(s), d, sort)

RECURSIVE StableSort(_, _, _)
StableSort(s, d, sort) ==
    IF s = <<>> THEN <<>>
    ELSE InsertByKey(s[Len(s)], StableSort(SubSeq(s, 1, Len(s) - 1), d, sort), d, sort)

\* lines 39-45
collect_files(d, listing, exts, sort) ==
    LET keep(p) == IsFile(d, p) /\ Lower(p.ext) \in exts
    IN StableSort(SelectSeq(listing, keep), d, sort)

\* lines 65-67 with the highest index taken one too high
OverCapacityMut(a, fs) == a.start + Len(fs) > Pow10(a.padding) - 1 /\ ~a.force

\* lines 65-67: the padding cannot hold the highest index, and --force is not set
OverCapacity(a, fs) == a.start + Len(fs) - 1 > Pow10(a.padding) - 1 /\ ~a.force

\* lines 76-77
TargetOf(a, i, p) == Name(Fmt(i, a.padding), Lower(p.ext))

\* lines 73-79: enumerate(files, start=args.start)
BuildMap(a, fs) ==
    [k \in 1..Len(fs) |-> [old |-> fs[k], target |-> TargetOf(a, a.start + k - 1, fs[k])]]

InFiles(p, fs) == \E k \in DOMAIN fs : fs[k] = p

\* line 82
existing_non_sources(d, fs, tg) ==
    {p \in DOMAIN d : IsFile(d, p) /\ ~InFiles(p, fs) /\ p \in tg}

\* line 91 without the test of --dry-run
AfterValidateMut(a) == "begin"

\* line 91
AfterValidate(a) == IF a.dry_run THEN "dryrun" ELSE "begin"

\* lines 104, 108
TempName(u, i, ext) == Name(<<".tmp_ren_", u, "_">> \o Digits(i), Lower(ext))

UIDs == {"u1", "u2"}

\* lines 104-109: the first candidate carries uid; while it exists another uuid is drawn
TempChoices(d, u, i, ext) ==
    IF ~Exists(d, TempName(u, i, ext)) THEN {TempName(u, i, ext)}
    ELSE {TempName(v, i, ext) : v \in {w \in UIDs : ~Exists(d, TempName(w, i, ext))}}

\* line 127
RecoveredName(t) == Name(<<"recovered_">> \o t.stem, t.ext)

NoRename == [phase |-> "none", src |-> <<>>, dst |-> <<>>, dstKind |-> "none", raised |-> FALSE]

Call(phase, d, src, dst, raised) ==
    [phase |-> phase, src |-> src, dst |-> dst, dstKind |-> KindAt(d, dst), raised |-> raised]

Goto(p) == /\ pc' = p
           /\ visited' = visited \cup {p}

Exit(c) == /\ Goto("exit")
           /\ code' = c

\* lines 49-56
CheckFolder ==
    /\ pc = "main"
    /\ IF args.folder = "dir" THEN Goto("collect") /\ code' = code ELSE Exit(2)
    /\ UNCHANGED <<bvars, cvars, args, dir0, dir, files, mapping, targets, uid, temp_map, idx, last,
                   faults, rbTried>>

\* lines 58-63
Collect ==
    /\ pc = "collect"
    /\ \E l \in Listings(dir) : files' = collect_files(dir, l, ExtsOf(args), args.sort)
    /\ IF files' = <<>> THEN Exit(0) ELSE Goto("capacity") /\ code' = code
    /\ UNCHANGED <<bvars, cvars, args, dir0, dir, mapping, targets, uid, temp_map, idx, last, faults,
                   rbTried>>

\* lines 65-70
Capacity ==
    /\ pc = "capacity"
    /\ IF OverCapacity(args, files) THEN Exit(3) ELSE Goto("build") /\ code' = code
    /\ UNCHANGED <<bvars, cvars, args, dir0, dir, files, mapping, targets, uid, temp_map, idx, last,
                   faults, rbTried>>

\* lines 72-79
BuildMapping ==
    /\ pc = "build"
    /\ mapping' = BuildMap(args, files)
    /\ targets' = {mapping'[k].target : k \in DOMAIN mapping'}
    /\ Goto("collision")
    /\ UNCHANGED <<bvars, cvars, args, dir0, dir, code, files, uid, temp_map, idx, last, faults, rbTried>>

\* lines 81-91
CheckCollision ==
    /\ pc = "collision"
    /\ IF existing_non_sources(dir, files, targets) # {}
       THEN Exit(4)
       ELSE Goto(AfterValidate(args)) /\ code' = code
    /\ UNCHANGED <<bvars, cvars, args, dir0, dir, files, mapping, targets, uid, temp_map, idx, last,
                   faults, rbTried>>

\* lines 91-96
DryRun ==
    /\ pc = "dryrun"
    /\ Exit(0)
    /\ UNCHANGED <<bvars, cvars, args, dir0, dir, files, mapping, targets, uid, temp_map, idx, last,
                   faults, rbTried>>

\* lines 99-101
BeginStage ==
    /\ pc = "begin"
    /\ uid' \in UIDs
    /\ temp_map' = <<>>
    /\ idx' = 1
    /\ Goto("stage")
    /\ UNCHANGED <<bvars, cvars, args, dir0, dir, code, files, mapping, targets, last, faults, rbTried>>

\* where the try block goes once the STAGE loop is over (line 114)
AfterStage(k, n) == IF k = n THEN "commit" ELSE "stage"

\* lines 103-111, the rename returns
StageRename ==
    /\ pc = "stage"
    /\ \E t \in TempChoices(dir, uid, idx - 1, mapping[idx].old.ext) :
         /\ ~RenameRaises(dir, mapping[idx].old, t)
         /\ last' = Call("stage", dir, mapping[idx].old, t, FALSE)
         /\ dir' = Renamed(dir, mapping[idx].old, t)
         /\ temp_map' = Append(temp_map, [temp |-> t, final |-> mapping[idx].target])
    /\ idx' = IF idx = Len(mapping) THEN 1 ELSE idx + 1
    /\ Goto(AfterStage(idx, Len(mapping)))
    /\ UNCHANGED <<bvars, cvars, args, dir0, code, files, mapping, targets, uid, faults, rbTried>>

\* lines 103-110 and 118-120, the rename raises
StageRaise ==
    /\ pc = "stage"
    /\ \E t \in TempChoices(dir, uid, idx - 1, mapping[idx].old.ext) :
         /\ \/ RenameRaises(dir, mapping[idx].old, t) /\ faults' = faults
            \/ faults < MaxFaults /\ faults' = faults + 1
         /\ last' = Call("stage", dir, mapping[idx].old, t, TRUE)
    /\ idx' = 1
    /\ Goto("rollback")
    /\ UNCHANGED <<bvars, cvars, args, dir0, dir, code, files, mapping, targets, uid, temp_map, rbTried>>

\* lines 114-117, the rename returns
CommitRename ==
    /\ pc = "commit"
    /\ ~RenameRaises(dir, temp_map[idx].temp, temp_map[idx].final)
    /\ last' = Call("commit", dir, temp_map[idx].temp, temp_map[idx].final, FALSE)
    /\ dir' = Renamed(dir, temp_map[idx].temp, temp_map[idx].final)
    /\ IF idx = Len(temp_map)
       THEN Exit(0) /\ idx' = idx
       ELSE idx' = idx + 1 /\ UNCHANGED <<pc, visited, code>>
    /\ UNCHANGED <<bvars, cvars, args, dir0, files, mapping, targets, uid, temp_map, faults, rbTried>>

\* lines 114-115 and 118-120, the rename raises
CommitRaise ==
    /\ pc = "commit"
    /\ \/ RenameRaises(dir, temp_map[idx].temp, temp_map[idx].final) /\ faults' = faults
       \/ faults < MaxFaults /\ faults' = faults + 1
    /\ last' = Call("commit", dir, temp_map[idx].temp, temp_map[idx].final, TRUE)
    /\ idx' = 1
    /\ Goto("rollback")
    /\ UNCHANGED <<bvars, cvars, args, dir0, dir, code, files, mapping, targets, uid, temp_map, rbTried>>

\* line 124 with the test inverted for every staged file
RollbackTriesMut(d, t) == FALSE

\* line 124: the rollback loop tries to move the temp files that exist
RollbackTries(d, t) == Exists(d, t)

\* lines 122-129, one iteration
RollbackStep ==
    /\ pc = "rollback"
    /\ idx <= Len(temp_map)
    /\ LET t == temp_map[idx].temp
           r == RecoveredName(t)
       IN IF RollbackTries(dir, t)
          THEN /\ rbTried' = rbTried \cup {t}
               /\ \/ /\ ~RenameRaises(dir, t, r)
                     /\ dir' = Renamed(dir, t, r)
                     /\ last' = Call("rollback", dir, t, r, FALSE)
                     /\ faults' = faults
                  \/ /\ \/ RenameRaises(dir, t, r) /\ faults' = faults
                        \/ faults < MaxFaults /\ faults' = faults + 1
                     /\ dir' = dir
                     /\ last' = Call("rollback", dir, t, r, TRUE)
          ELSE UNCHANGED <<rbTried, dir, last, faults>>
    /\ idx' = idx + 1
    /\ UNCHANGED <<bvars, cvars, args, dir0, pc, visited, code, files, mapping, targets, uid, temp_map>>

\* line 130
RollbackExit ==
    /\ pc = "rollback"
    /\ idx > Len(temp_map)
    /\ Exit(5)
    /\ UNCHANGED <<bvars, cvars, args, dir0, dir, files, mapping, targets, uid, temp_map, idx, last,
                   faults, rbTried>>

(***************************************************************************)
(* labelme_to_yolo.py                                                      *)
(*                                                                         *)
(* A record is [image, size, shapes]: image says whether the file that     *)
(* data['imagePath'] resolves to is there and opens ("ok"), is not there   *)
(* ("missing") or cannot be opened ("unreadable"); size is im.size.  A     *)
(* shape is [shape_type, label, points].  A box line is kept as the class  *)
(* id and the four quotients <<numerator, denominator>> that line 52       *)
(* prints with six decimals.  Records are numbered from 1: record i is     *)
(* index i-1 of json_files.                                                *)
(***************************************************************************)
MaxRecords == 5     \* annotation files in cat_label

TRAIN_RATIO ==
    [mant |-> <<0, 1, 1, 0, 0, 1, 1, 0, 0, 1, 1, 0, 0, 1, 1, 0, 0, 1, 1, 0, 0, 1, 1, 0, 0, 1,
                1, 0, 0, 1, 1, 0, 0, 1, 1, 0, 0, 1, 1, 0, 0, 1, 1, 0, 0, 1, 1, 0, 0, 1, 1, 0,
                1>>,
     exp |-> 53]

VAL_RATIO ==
    [mant |-> <<0, 1, 0, 1, 1, 0, 0, 1, 1, 0, 0, 1, 1, 0, 0, 1, 1, 0, 0, 1, 1, 0, 0, 1, 1, 0,
                0, 1, 1, 0, 0, 1, 1, 0, 0, 1, 1, 0, 0, 1, 1, 0, 0, 1, 1, 0, 0, 1, 1, 0, 0, 1,
                1>>,
     exp |-> 55]

\* Binary numbers are sequences of bits, lowest first.
RECURSIVE MulBits(_, _, _)
MulBits(bits, n, carry) ==
    IF bits = <<>>
    THEN IF carry = 0 THEN <<>> ELSE <<carry % 2>> \o MulBits(<<>>, n, carry \div 2)
    ELSE <<(n * Head(bits) + carry) % 2>>
         \o MulBits(Tail(bits), n, (n * Head(bits) + carry) \div 2)

RECURSIVE IncBits(_)
IncBits(bits) ==
    IF bits = <<>> THEN <<1>>
    ELSE IF Head(bits) = 0 THEN <<1>> \o Tail(bits)
    ELSE <<0>> \o IncBits(Tail(bits))

RECURSIVE BitsToInt(_)
BitsToInt(bits) == IF bits = <<>> THEN 0 ELSE Head(bits) + 2 * BitsToInt(Tail(bits))

RECURSIVE BitLength(_)
BitLength(bits) ==
    IF bits = <<>> THEN 0
    ELSE IF bits[Len(bits)] = 1 THEN Len(bits)
    ELSE BitLength(SubSeq(bits, 1, Len(bits) - 1))

Drop(bits, k) == IF k >= Len(bits) THEN <<>> ELSE SubSeq(bits, k + 1, Len(bits))

\* the 53-bit significand of the double nearest to p * 2^-sh (ties to even), p having
\* more than 53 bits
RoundBits(p, sh) ==
    LET q == Drop(p, sh)
        low == SubSeq(p, 1, sh - 1)
        up == p[sh] = 1 /\ (BitLength(low) > 0 \/ q[1] = 1)
    IN IF up THEN IncBits(q) ELSE q

\* lines 89-90 with round() in place of int()
IntOfProductMut(n, ratio) ==
    IF ratio.exp = 53 THEN (7 * n + 5) \div 10 ELSE (2 * n + 5) \div 10

\* int(n * ratio), lines 89-90: the double product of n and the double ratio, truncated
IntOfProduct(n, ratio) ==
    LET p == MulBits(ratio.mant, n, 0)
        sh == IF BitLength(p) > 53 THEN BitLength(p) - 53 ELSE 0
        q == IF sh = 0 THEN p ELSE RoundBits(p, sh)
    IN BitsToInt(Drop(q, ratio.exp - sh))

LabelOrd(l) == CASE l = "cat" -> 1 [] l = "dog" -> 2 [] OTHER -> 3

\* line 83: the index of name in sorted(classes)
ClassId(name, cls) == Cardinality({c \in cls : LabelOrd(c) < LabelOrd(name)})

\* lines 33-35
LabelsOf(rec) == {rec.shapes[k].label : k \in DOMAIN rec.shapes}

Min(a, b) == IF a < b THEN a ELSE b
Max(a, b) == IF a > b THEN a ELSE b

None == [tag |-> "none"]
Raised(e) == [tag |-> "raise", error |-> e]

\* lines 38-52
convert_shape_to_yolo(shape, img_w, img_h, cls) ==
    IF shape.shape_type # "rectangle" THEN None
    ELSE IF Len(shape.points) < 2 THEN Raised("IndexError")
    ELSE IF shape.label \notin cls THEN Raised("KeyError")
    ELSE LET x1 == shape.points[1][1]
             y1 == shape.points[1][2]
             x2 == shape.points[2][1]
             y2 == shape.points[2][2]
         IN [tag |-> "line",
             class_id |-> ClassId(shape.label, cls),
             x_c |-> <<Min(x1, x2) + Max(x1, x2), 2 * img_w>>,
             y_c |-> <<Min(y1, y2) + Max(y1, y2), 2 * img_h>>,
             w |-> <<Max(x1, x2) - Min(x1, x2), img_w>>,
             h |-> <<Max(y1, y2) - Min(y1, y2), img_h>>]

\* lines 68-72: the lines of the shapes that convert, or the exception of the first
\* shape that raises
RECURSIVE yolo_lines(_, _, _, _)
yolo_lines(shapes, img_w, img_h, cls) ==
    IF shapes = <<>> THEN [tag |-> "ok", lines |-> <<>>]
    ELSE LET y == convert_shape_to_yolo(Head(shapes), img_w, img_h, cls)
             rest == yolo_lines(Tail(shapes), img_w, img_h, cls)
         IN IF y.tag = "raise" THEN y
            ELSE IF rest.tag = "raise" THEN rest
            ELSE [tag |-> "ok",
                  lines |-> (IF y.tag = "line" THEN <<y>> ELSE <<>>) \o rest.lines]

\* lines 54-73
process_one(rec, cls) ==
    IF rec.image = "missing" THEN [tag |-> "err", err |-> "Image not found"]
    ELSE IF rec.image = "unreadable" THEN [tag |-> "err", err |-> "Failed to open image"]
    ELSE yolo_lines(rec.shapes, rec.size[1], rec.size[2], cls)

\* lines 92-94: the three slices of the shuffled index list
Slices(indices, n_train, n_val) ==
    [done |-> TRUE,
     train |-> {indices[k] : k \in 1..n_train},
     val |-> {indices[k] : k \in (n_train + 1)..(n_train + n_val)},
     test |-> {indices[k] : k \in (n_train + n_val + 1)..Len(indices)}]

RECURSIVE Orders(_)
Orders(S) ==
    IF S = {} THEN {<<>>}
    ELSE UNION {{<<x>> \o o : o \in Orders(S \ {x})} : x \in S}

\* random.shuffle(indices): every order of the record numbers
Shuffles(n) == Orders(1..n)

\* lines 104-115
SplitOf(i, sp) == IF i \in sp.train THEN "train" ELSE IF i \in sp.val THEN "val" ELSE "test"

\* lines 100-101 without the increment of the skip count
SkippedMut(st, i, err) == [st EXCEPT !.errors = Append(@, [record |-> i, err |-> err])]

\* lines 100-101
Skipped(st, i, err) ==
    [st EXCEPT !.skipped = @ + 1, !.errors = Append(@, [record |-> i, err |-> err])]

\* lines 107, 111, 115
Counted(st, which) == [st EXCEPT ![which] = @ + 1]

\* lines 86-94 moved above the call of find_classes
SplitReadyMut(k, n) == TRUE

\* line 82 returns once find_classes has read every record
SplitReady(k, n) == k = n

NoSplit == [done |-> FALSE, train |-> {}, val |-> {}, test |-> {}]
NoStats == [train |-> 0, val |-> 0, test |-> 0, skipped |-> 0, errors |-> <<>>]
NoManifest == [written |-> FALSE, nc |-> 0, names |-> {}]

\* lines 76-80
ConvStart ==
    /\ cpc = "start"
    /\ cpc' = IF records = <<>> THEN "done" ELSE "discover"
    /\ UNCHANGED <<rvars, bvars, records, scanned, classes, split, pos, stats, written,
                   copied, manifest>>

\* lines 30-35, one annotation file
Discover ==
    /\ cpc = "discover"
    /\ scanned < Len(records)
    /\ scanned' = scanned + 1
    /\ classes' = classes \cup LabelsOf(records[scanned + 1])
    /\ UNCHANGED <<rvars, bvars, records, cpc, split, pos, stats, written, copied, manifest>>

\* lines 83-96
ShuffleSplit ==
    /\ cpc = "discover"
    /\ SplitReady(scanned, Len(records))
    /\ \E n_train \in {IntOfProduct(Len(records), TRAIN_RATIO)} :
         \E n_val \in {IntOfProduct(Len(records), VAL_RATIO)} :
           \E indices \in Shuffles(Len(records)) :
             split' = Slices(indices, n_train, n_val)
    /\ stats' = NoStats
    /\ cpc' = "process"
    /\ UNCHANGED <<rvars, bvars, records, scanned, classes, pos, written, copied, manifest>>

\* lines 97-118, one record
ProcessRecord ==
    /\ cpc = "process"
    /\ pos < Len(records)
    /\ LET i == pos + 1
           r == process_one(records[i], classes)
       IN CASE r.tag = "raise" ->
                 /\ cpc' = "crashed"
                 /\ UNCHANGED <<pos, stats, written, copied>>
            [] r.tag = "err" ->
                 /\ stats' = Skipped(stats, i, r.err)
                 /\ pos' = i
                 /\ UNCHANGED <<cpc, written, copied>>
            [] OTHER ->
                 /\ stats' = Counted(stats, SplitOf(i, split))
                 /\ copied' = copied \cup {i}
                 /\ written' = [k \in DOMAIN written \cup {i} |->
                                  IF k = i THEN [dst |-> SplitOf(i, split), lines |-> r.lines]
                                  ELSE written[k]]
                 /\ pos' = i
                 /\ cpc' = cpc
    /\ UNCHANGED <<rvars, bvars, records, scanned, classes, split, manifest>>

\* lines 119-137
WriteManifest ==
    /\ cpc = "process"
    /\ pos = Len(records)
    /\ manifest' = [written |-> TRUE, nc |-> Cardinality(classes), names |-> classes]
    /\ cpc' = "done"
    /\ UNCHANGED <<rvars, bvars, records, scanned, classes, split, pos, stats, written,
                   copied>>

(***************************************************************************)
(* The runs of labelme_to_yolo.py                                          *)
(***************************************************************************)
P1 == <<1, 1>>
P2 == <<3, 2>>
P3 == <<2, 4>>
Shape(t, l, pts) == [shape_type |-> t, label |-> l, points |-> pts]

\* the shape lists an annotation file may hold
ShapeLists ==
    << <<Shape("rectangle", "dog", <<P2, P1>>)>>,
       <<Shape("polygon", "cat", <<P1, P2, P3>>), Shape("rectangle", "cat", <<P1, P2>>)>>,
       <<>>,
       <<Shape("rectangle", "dog", <<P1, P2, P3>>), Shape("circle", "emu", <<P1, P2>>)>>,
       <<Shape("rectangle", "cat", <<P1>>), Shape("rectangle", "dog", <<P1, P2>>)>> >>

Images == {"ok", "missing", "unreadable"}
ImgSize == <<4, 4>>

\* record i holds the shape list number ((i + shift) mod Len(ShapeLists)) + 1
RecordsOf(img, shift) ==
    [i \in DOMAIN img |->
        [image |-> img[i], size |-> ImgSize,
         shapes |-> ShapeLists[((i + shift) % Len(ShapeLists)) + 1]]]

ConvInit ==
    /\ \E n \in 0..MaxRecords :
         \E img \in [1..n -> Images] :
           \E shift \in 0..(Len(ShapeLists) - 1) : records = RecordsOf(img, shift)
    /\ cpc = "start"
    /\ scanned = 0
    /\ classes = {}
    /\ split = NoSplit
    /\ pos = 0
    /\ stats = NoStats
    /\ written = <<>>
    /\ copied = {}
    /\ manifest = NoManifest

(***************************************************************************)
(* The runs of rename_images.py                                            *)
(***************************************************************************)
N0jpg == Name(<<"0">>, ".jpg")
N0JPG == Name(<<"0">>, ".JPG")
N1jpg == Name(<<"1">>, ".jpg")
Nbtxt == Name(<<"b">>, ".txt")
Ntmp == Name(<<".tmp_ren_", "u1", "_", "0">>, ".jpg")

Universe == {N0jpg, N0JPG, N1jpg, Nbtxt, Ntmp}
Mtimes == {1, 2}
Entries == [kind : {"file"}, mtime : Mtimes] \cup [kind : {"dir", "link"}, mtime : {1}]

\* the names that may also be held by a subdirectory, or by a dangling link
DirNames == {N0jpg, N1jpg, Ntmp}
LinkNames == {N1jpg}

Dirs ==
    {d \in UNION {[S -> Entries] :
                    S \in {T \in SUBSET Universe : Cardinality(T) <= MaxEntries}} :
        \A n \in DOMAIN d : /\ (d[n].kind = "dir" => n \in DirNames)
                             /\ (d[n].kind = "link" => n \in LinkNames)}

Starts == {0, 1}
Paddings == {0, 2}
ExtsArgs == {<<"JPG">>, <<".jpg", "txt">>}

ArgSets ==
    [folder : {"dir", "missing", "notdir"}, start : Starts, padding : Paddings,
     sort : {"name", "mtime"}, dry_run : BOOLEAN, exts : ExtsArgs, force : BOOLEAN]

NoDir == [n \in {} |-> NoRename]

RenInit ==
    /\ args \in ArgSets
    /\ dir0 \in IF args.folder = "dir" THEN Dirs ELSE {NoDir}
    \* st_mtime is read only under --sort mtime
    /\ args.sort = "name" => \A n \in DOMAIN dir0 : dir0[n].mtime = 1
    /\ dir = dir0
    /\ pc = "main"
    /\ visited = {"main"}
    /\ code = -1
    /\ files = <<>>
    /\ mapping = <<>>
    /\ targets = {}
    /\ uid = "none"
    /\ temp_map = <<>>
    /\ idx = 0
    /\ last = NoRename
    /\ faults = 0
    /\ rbTried = {}

IdleB == filesB = <<>> /\ mappingB = <<>>

IdleConv ==
    /\ records = <<>>
    /\ cpc = "idle"
    /\ scanned = 0
    /\ classes = {}
    /\ split = NoSplit
    /\ pos = 0
    /\ stats = NoStats
    /\ written = <<>>
    /\ copied = {}
    /\ manifest = NoManifest

IdleRen ==
    /\ args = [folder |-> "none"]
    /\ dir0 = NoDir
    /\ dir = NoDir
    /\ pc = "idle"
    /\ visited = {}
    /\ code = -1
    /\ files = <<>>
    /\ mapping = <<>>
    /\ targets = {}
    /\ uid = "none"
    /\ temp_map = <<>>
    /\ idx = 0
    /\ last = NoRename
    /\ faults = 0
    /\ rbTried = {}

InitConv == ConvInit /\ IdleRen /\ IdleB

NextConv ==
    \/ ConvStart
    \/ Discover
    \/ ShuffleSplit
    \/ ProcessRecord
    \/ WriteManifest

SpecConv == InitConv /\ [][NextConv]_vars

Init == RenInit /\ IdleB /\ IdleConv

Next ==
    \/ CheckFolder
    \/ Collect
    \/ Capacity
    \/ BuildMapping
    \/ CheckCollision
    \/ DryRun
    \/ BeginStage
    \/ StageRename
    \/ StageRaise
    \/ CommitRename
    \/ CommitRaise
    \/ RollbackStep
    \/ RollbackExit

Spec == Init /\ [][Next]_vars

(***************************************************************************)
(* Two runs of the planning part of rename_images.py (lines 59-79) over    *)
(* the same directory and the same command line                            *)
(***************************************************************************)
\* lines 59-79 of one run: the file list and the mapping built from it
Plan(d, a, listing) ==
    LET fs == collect_files(d, listing, ExtsOf(a), a.sort)
    IN [files |-> fs,
        mapping |-> IF fs = <<>> \/ OverCapacity(a, fs) THEN <<>> ELSE BuildMap(a, fs)]

PlanA ==
    /\ pc = "main"
    /\ args.folder = "dir"
    /\ \E l \in Listings(dir) :
         /\ files' = Plan(dir, args, l).files
         /\ mapping' = Plan(dir, args, l).mapping
    /\ Goto("planned")
    /\ UNCHANGED <<bvars, cvars, args, dir0, dir, code, targets, uid, temp_map, idx, last,
                   faults, rbTried>>

PlanB ==
    /\ pc = "planned"
    /\ \E l \in Listings(dir) :
         /\ filesB' = Plan(dir, args, l).files
         /\ mappingB' = Plan(dir, args, l).mapping
    /\ Goto("planned2")
    /\ UNCHANGED <<cvars, args, dir0, dir, code, files, mapping, targets, uid, temp_map, idx,
                   last, faults, rbTried>>

NextPlan ==
    \/ PlanA
    \/ PlanB

SpecPlan == Init /\ [][NextPlan]_vars

(***************************************************************************)
(* Claims about rename_images.py                                           *)
(***************************************************************************)
Staged == {temp_map[k].temp : k \in DOMAIN temp_map}

\* C1 (as stated): every rename of STAGE and COMMIT finds its destination path absent
\* from the directory, so that no rename overwrites a directory entry.
C1_DestinationAbsent ==
    last.phase \in {"stage", "commit"} => last.dstKind = "none"

\* C2 (as stated): when a computed target names an entry of the directory that is not
\* a collected source file, the run ends with exit code 4 and the directory holds the
\* names it held at the start.
C2_CollisionFailsValidation ==
    (/\ pc = "exit"
     /\ mapping # <<>>
     /\ \E p \in DOMAIN dir0 : p \in targets /\ ~InFiles(p, files))
    => (code = 4 /\ DOMAIN dir = DOMAIN dir0)

\* C3: with a non-empty file list, the run exits with code 3 before the mapping is built
\* and with the directory unchanged exactly when start+len(files)-1 > 10^padding - 1 and
\* --force is not set; otherwise the capacity check does not end it and the run goes on
\* to build the mapping and to the collision check.
C3_CapacityCheck ==
    (files # <<>> /\ pc \notin {"main", "collect", "capacity"})
    => IF args.start + Len(files) - 1 > Pow10(args.padding) - 1 /\ ~args.force
       THEN /\ pc = "exit" /\ code = 3
            /\ mapping = <<>> /\ dir = dir0 /\ last = NoRename
            /\ visited = {"main", "collect", "capacity", "exit"}
       ELSE /\ code # 3
            /\ "build" \in visited
            /\ pc # "build" => "collision" \in visited /\ Len(mapping) = Len(files)

C3_Witness ==
    /\ pc = "exit" /\ code = 3
    /\ Len(files) = 2 /\ args.padding = 0 /\ dir0 # NoDir

\* C6: under --dry-run no rename is executed and STAGE, COMMIT and ROLLBACK are never
\* entered; once validation has passed the run reports the mapping and ends with exit
\* code 0, the directory being what it was at the start.
C6_DryRun ==
    args.dry_run
    => /\ dir = dir0
       /\ last = NoRename
       /\ visited \cap {"begin", "stage", "commit", "rollback"} = {}
       /\ ("collision" \in visited /\ pc # "collision" /\ code # 4) => "dryrun" \in visited
       /\ ("dryrun" \in visited /\ pc = "exit") => code = 0

C6_Witness ==
    /\ args.dry_run /\ pc = "exit" /\ "dryrun" \in visited
    /\ Len(mapping) >= 2 /\ code = 0

\* C7, the state part: a rename of STAGE or COMMIT that raised has put the run in
\* ROLLBACK; a run that went through ROLLBACK ends with exit code 5, having attempted
\* the rename to 'recovered_' + name for exactly the staged temp files that still
\* existed (each is now under its recovery name or, the attempt having failed, still
\* under its temp name), the others being the ones COMMIT had already moved.
C7_RollbackState ==
    /\ (last.phase \in {"stage", "commit"} /\ last.raised)
       => (pc \in {"rollback", "exit"} /\ "rollback" \in visited)
    /\ ("rollback" \in visited /\ pc = "exit")
       => /\ code = 5
          /\ rbTried \subseteq Staged
          /\ \A t \in Staged :
               /\ t \in rbTried <=> (t \in DOMAIN dir \/ RecoveredName(t) \in DOMAIN dir)
               /\ ~(t \in DOMAIN dir /\ RecoveredName(t) \in DOMAIN dir)
    /\ code = 5 => "rollback" \in visited

\* C7, the step part: ROLLBACK is entered only from STAGE or COMMIT, by a rename that
\* raised, and is left only by the exit with code 5.
C7_RollbackStep ==
    /\ (pc' = "rollback" /\ pc # "rollback")
       => (pc \in {"stage", "commit"} /\ last'.raised /\ last'.phase = pc)
    /\ (pc = "rollback" /\ pc' # "rollback") => (pc' = "exit" /\ code' = 5)

C5_SameMapping ==
    pc = "planned2"
    => /\ mappingB = mapping
       /\ \A j, k \in DOMAIN mapping : j # k => mapping[j].target # mapping[k].target

(***************************************************************************)
(* Claims about labelme_to_yolo.py                                         *)
(***************************************************************************)
NRecords == Len(records)
Failing(i) == records[i].image # "ok"
Converted(S) == Cardinality({i \in S : ~Failing(i)})

\* C4 (as stated): the per-split counts reported at the end of the run add up to the
\* number of records n, with train = floor(n*0.7), val = floor(n*0.2) and
\* test = n - train - val.
C4_ReportedCounts ==
    cpc = "done"
    => /\ stats.train + stats.val + stats.test = NRecords
       /\ stats.train = (7 * NRecords) \div 10
       /\ stats.val = (2 * NRecords) \div 10
       /\ stats.test = NRecords - stats.train - stats.val

\* C4 (amended): the three index sets of the split partition the n records and have
\* floor(n*0.7), floor(n*0.2) and n - train - val members; the counts reported at the
\* end are those of the converted records of each set, so that they add up to n less
\* the skip count.
C4_SplitSizes ==
    split.done
    => /\ Cardinality(split.train) = (7 * NRecords) \div 10
       /\ Cardinality(split.val) = (2 * NRecords) \div 10
       /\ Cardinality(split.test)
            = NRecords - Cardinality(split.train) - Cardinality(split.val)
       /\ split.train \cup split.val \cup split.test = 1..NRecords
       /\ cpc = "done"
          => /\ stats.train = Converted(split.train)
             /\ stats.val = Converted(split.val)
             /\ stats.test = Converted(split.test)
             /\ stats.train + stats.val + stats.test + stats.skipped = NRecords

C4_Witness ==
    /\ cpc = "done" /\ NRecords = 5
    /\ stats.skipped = 2 /\ stats.val = 1 /\ stats.train = 2 /\ stats.test = 0

FewPointRectangle(rec) ==
    \E k \in DOMAIN rec.shapes :
        rec.shapes[k].shape_type = "rectangle" /\ Len(rec.shapes[k].points) < 2

\* C8, the state part: the skip count is the number of handled records whose image is
\* missing or unreadable, each has its entry in the error list and neither an image copy
\* nor a label file, while every other handled record has both; a run is never aborted
\* at such a record, and a run that reaches its end has handled every record and written
\* the manifest.
C8_SkipState ==
    /\ stats.skipped = Cardinality({i \in 1..pos : Failing(i)})
    /\ Len(stats.errors) = stats.skipped
    /\ \A i \in 1..pos :
         Failing(i) => /\ i \notin copied
                       /\ i \notin DOMAIN written
                       /\ \E e \in DOMAIN stats.errors : stats.errors[e].record = i
    /\ \A i \in 1..pos : ~Failing(i) => (i \in copied /\ i \in DOMAIN written)
    /\ cpc = "crashed" => (~Failing(pos + 1) /\ FewPointRectangle(records[pos + 1]))
    /\ (cpc = "done" /\ records # <<>>) => (pos = NRecords /\ manifest.written)

\* C8, the step part: handling a record whose image is missing or unreadable adds one to
\* the skip count and one entry to the error list, writes nothing, and leaves the loop at
\* the next record.
C8_SkipStep ==
    (cpc = "process" /\ pos < NRecords /\ Failing(pos + 1))
    => /\ cpc' = "process"
       /\ pos' = pos + 1
       /\ stats'.skipped = stats.skipped + 1
       /\ Len(stats'.errors) = Len(stats.errors) + 1
       /\ stats'.errors[Len(stats'.errors)].record = pos + 1
       /\ <<stats'.train, stats'.val, stats'.test>> = <<stats.train, stats.val, stats.test>>
       /\ UNCHANGED <<written, copied, manifest>>

\* C8: a record whose image is missing or cannot be opened adds one to the skip count
\* and one entry to the error list, gets no image copy and no label file, and does not
\* stop the run: the loop goes on with the next record, and the run that reaches its end
\* has handled every record and written the manifest.
C8_SkipIsLocal == [](C8_SkipState) /\ [][C8_SkipStep]_vars

C8_Witness ==
    /\ cpc = "done" /\ manifest.written
    /\ \E i \in 1..NRecords : Failing(i) /\ i < NRecords /\ (i + 1) \in copied
    /\ \E i, j \in 1..NRecords : records[i].image = "missing" /\ records[j].image = "unreadable"

\* C9 (as stated): the class-discovery pass and the conversion pass have both finished
\* when the split assignment is computed.
C9_BothPassesBeforeSplit ==
    split.done => (scanned = NRecords /\ pos = NRecords)

\* C9 (amended): the class-discovery pass over all records has finished when the split
\* assignment is computed, and the conversion pass handles its first record only after
\* the split assignment is computed.
C9_DiscoveryThenSplitThenConversion ==
    /\ split.done => scanned = NRecords
    /\ ~split.done => (pos = 0 /\ copied = {} /\ DOMAIN written = {} /\ stats = NoStats)

C9_Witness ==
    /\ split.done /\ cpc = "process" /\ pos = 0
    /\ NRecords >= 2 /\ scanned = NRecords /\ Cardinality(classes) >= 2

TwoPointRectangles(rec) ==
    {k \in DOMAIN rec.shapes :
        rec.shapes[k].shape_type = "rectangle" /\ Len(rec.shapes[k].points) = 2}

\* C10 (as stated): a shape yields a box line only if it is a rectangle with exactly two
\* points; every other shape is skipped without a line and without an error, and the
\* other shapes of its record are still converted.
C10_OnlyTwoPointRectangles ==
    /\ cpc # "crashed"
    /\ \A i \in DOMAIN written :
         Len(written[i].lines) = Cardinality(TwoPointRectangles(records[i]))

====
